---------------------------- MODULE Spec2Model ----------------------------
(***************************************************************************)
(* Town Map Puzzle (src/TownMapPuzzle.py): the drag-and-drop state machine  *)
(* of main(), with layout_tray(), the Slot geometry and the win check.      *)
(*                                                                          *)
(* One frame of the inner loop is  Tick ; event handlers ... ; EndFrame.    *)
(* Pixel surfaces (Piece.image, draw()'s blits) are never read by a control *)
(* decision and are not part of the state.                                  *)
(***************************************************************************)
EXTENDS Integers, Sequences, FiniteSets

(* ------------------------- program constants --------------------------- *)
SCREEN_W == 960
SCREEN_H == 640
COLS == 3
ROWS == 3
TILE_SIZE == 160
BOARD_X == 350
BOARD_Y == (SCREEN_H - ROWS * TILE_SIZE) \div 2
TRAY_X == 10
TRAY_Y == 10
TRAY_W == 320
TRAY_H == SCREEN_H - 20
TRAY_COLS == 2
TRAY_PAD == 12

\* the label band above the first tray row (the literal 70 of layout_tray)
TRAY_TOP == 70

\* held_piece = None
None == -1

NumPieces == COLS * ROWS
\* range(COLS * ROWS): the indices of pieces and of slots
Pieces == 0 .. (NumPieces - 1)

(* ------------------------------ bounds --------------------------------- *)
\* how many of the permutations of ShuffleList random.shuffle may return
NumShuffles == 2
\* win_timer is followed up to this many milliseconds
MaxWinTimer == 40

(* ------------------------------ inputs --------------------------------- *)
\* outcomes of random.shuffle(shuffled_tray); the first is Scenario A's deal
ShuffleList ==
    << <<4, 0, 8, 1, 5, 2, 6, 3, 7>>,
       <<0, 1, 2, 3, 4, 5, 6, 7, 8>>,
       <<8, 7, 6, 5, 4, 3, 2, 1, 0>>,
       <<2, 6, 0, 7, 3, 8, 1, 5, 4>> >>

Shuffles == { ShuffleList[n] : n \in 1 .. NumShuffles }

\* values clock.tick(60) returns: a 60 Hz frame lasts 16 or 17 ms
MsSet == {16, 17}

\* event.button of a mouse button event: 1 is the primary button
Buttons == {1, 3}

\* event.key of a KEYDOWN event
Keys == {"K_r", "K_other"}

(* ------------------------------ geometry ------------------------------- *)
Pt(px, py) == [x |-> px, y |-> py]

Rect(rx, ry, rw, rh) == [x |-> rx, y |-> ry, w |-> rw, h |-> rh]

\* pygame.Rect.collidepoint: the right and bottom edges are outside
collidepoint(r, p) ==
    /\ r.x <= p.x /\ p.x < r.x + r.w
    /\ r.y <= p.y /\ p.y < r.y + r.h

\* Slot.__init__: the fixed board rectangle of slot j
SlotRect(j) ==
    Rect(BOARD_X + (j % COLS) * TILE_SIZE,
         BOARD_Y + (j \div COLS) * TILE_SIZE,
         TILE_SIZE, TILE_SIZE)

\* layout_tray's tile_w
tile_w == (TRAY_W - TRAY_PAD * (TRAY_COLS + 1)) \div TRAY_COLS

\* layout_tray's rectangle of the i-th unplaced piece (i from 0)
TrayCell(i) ==
    Rect(TRAY_X + TRAY_PAD + (i % TRAY_COLS) * (tile_w + TRAY_PAD),
         TRAY_Y + TRAY_TOP + (i \div TRAY_COLS) * (tile_w + TRAY_PAD),
         tile_w, tile_w)

SlotCentre(j) == Pt(SlotRect(j).x + TILE_SIZE \div 2, SlotRect(j).y + TILE_SIZE \div 2)

\* the middle of tray cell 0
TrayPoint0 == Pt(TrayCell(0).x + tile_w \div 2, TrayCell(0).y + tile_w \div 2)

\* a point of tray cell 1 that a picked-up (TILE_SIZE wide) piece still
\* standing at tray cell 0 covers too
TrayPoint1 == Pt(TrayCell(1).x + 2, TrayCell(1).y + tile_w \div 2)

\* a point of the last tray cell, which lies below the window
LowPoint == Pt(TrayCell(NumPieces - 1).x + tile_w \div 2, TrayCell(NumPieces - 1).y + 4)

\* event.pos of MOUSEBUTTONDOWN and MOUSEBUTTONUP events
Points == {TrayPoint0, TrayPoint1, LowPoint} \cup { SlotCentre(j) : j \in Pieces }

\* event.pos of MOUSEMOTION events
MovePoints == {TrayPoint1, SlotCentre(4)}

(* ------------------------------- state --------------------------------- *)
VARIABLES
    shuffled_tray,  \* display order: a permutation of Pieces (a sequence)
    placed,         \* Piece.placed, by piece index
    rect,           \* Piece.rect, by piece index
    filled,         \* Slot.filled, by slot index
    held_piece,     \* index of the held piece, or None
    drag_offset,    \* <<dx, dy>>
    complete,
    win_timer,
    running,        \* main's local flag of the inner loop
    ms_elapsed,     \* what clock.tick(60) returned for this frame
    pc              \* "reset" | "tick" | "events"

vars == << shuffled_tray, placed, rect, filled, held_piece, drag_offset,
           complete, win_timer, running, ms_elapsed, pc >>

(* ------------------------------ layout --------------------------------- *)
\* the unplaced pieces in display order
Unplaced(st, pl) == SelectSeq(st, LAMBDA i : ~pl[i])

\* fault: the loop of layout_tray moving each rectangle by (x, y) instead of
\* building it at (x, y)
RECURSIVE LayoutFrom_Shifts(_, _, _)
LayoutFrom_Shifts(unplaced, n, rc) ==
    IF n > Len(unplaced) THEN rc
    ELSE LayoutFrom_Shifts(unplaced, n + 1,
             [rc EXCEPT ![unplaced[n]] =
                 Rect(@.x + TrayCell(n - 1).x, @.y + TrayCell(n - 1).y, tile_w, tile_w)])

\* lines 195-200: the loop of layout_tray from the n-th unplaced piece on
RECURSIVE LayoutFrom(_, _, _)
LayoutFrom(unplaced, n, rc) ==
    IF n > Len(unplaced) THEN rc
    ELSE LayoutFrom(unplaced, n + 1, [rc EXCEPT ![unplaced[n]] = TrayCell(n - 1)])

\* layout_tray(): every unplaced piece gets the tray cell of its rank; the
\* rectangles of placed pieces are left alone
layout_tray(st, pl, rc) == LayoutFrom(Unplaced(st, pl), 1, rc)

(* ------------------------------- Init ---------------------------------- *)
\* module level (lines 184-214), on entry to main()
Init ==
    /\ shuffled_tray \in Shuffles
    /\ placed = [i \in Pieces |-> FALSE]
    /\ filled = [j \in Pieces |-> FALSE]
    /\ rect = layout_tray(shuffled_tray, placed,
                          [i \in Pieces |-> Rect(0, 0, TILE_SIZE, TILE_SIZE)])
    /\ held_piece = None
    /\ drag_offset = <<0, 0>>
    /\ complete = FALSE
    /\ win_timer = 0
    /\ running = FALSE
    /\ ms_elapsed = 0
    /\ pc = "reset"

(* ------------------------------ actions -------------------------------- *)
\* fault: a reset that forgets line 295 (held_piece = None)
Reset_KeepsHeld ==
    /\ pc = "reset"
    /\ \E st \in Shuffles :
         /\ shuffled_tray' = st
         /\ placed' = [i \in Pieces |-> FALSE]
         /\ filled' = [j \in Pieces |-> FALSE]
         /\ rect' = layout_tray(st, placed', rect)
    /\ complete' = FALSE
    /\ win_timer' = 0
    /\ running' = TRUE
    /\ pc' = "tick"
    /\ UNCHANGED << held_piece, drag_offset, ms_elapsed >>

\* fault: a reset that forgets lines 293-294 (slot.filled = False)
Reset_KeepsFilled ==
    /\ pc = "reset"
    /\ \E st \in Shuffles :
         /\ shuffled_tray' = st
         /\ placed' = [i \in Pieces |-> FALSE]
         /\ rect' = layout_tray(st, placed', rect)
    /\ held_piece' = None
    /\ complete' = FALSE
    /\ win_timer' = 0
    /\ running' = TRUE
    /\ pc' = "tick"
    /\ UNCHANGED << filled, drag_offset, ms_elapsed >>

\* fault: a reset that forgets line 296 (complete = False)
Reset_KeepsComplete ==
    /\ pc = "reset"
    /\ \E st \in Shuffles :
         /\ shuffled_tray' = st
         /\ placed' = [i \in Pieces |-> FALSE]
         /\ filled' = [j \in Pieces |-> FALSE]
         /\ rect' = layout_tray(st, placed', rect)
    /\ held_piece' = None
    /\ win_timer' = 0
    /\ running' = TRUE
    /\ pc' = "tick"
    /\ UNCHANGED << complete, drag_offset, ms_elapsed >>

\* lines 289-300: the reset at the start of each game
Reset ==
    /\ pc = "reset"
    /\ \E st \in Shuffles :
         /\ shuffled_tray' = st
         /\ placed' = [i \in Pieces |-> FALSE]
         /\ filled' = [j \in Pieces |-> FALSE]
         /\ rect' = layout_tray(st, placed', rect)
    /\ held_piece' = None
    /\ complete' = FALSE
    /\ win_timer' = 0
    /\ running' = TRUE
    /\ pc' = "tick"
    /\ UNCHANGED << drag_offset, ms_elapsed >>

\* line 302: ms_elapsed = clock.tick(60)
Tick ==
    /\ pc = "tick"
    /\ ms_elapsed' \in MsSet
    /\ pc' = "events"
    /\ UNCHANGED << shuffled_tray, placed, rect, filled, held_piece,
                    drag_offset, complete, win_timer, running >>

\* fault: K_r clears the placement flags at once, inside the event loop
KeyDown_ClearsNow(key) ==
    /\ pc = "events"
    /\ running' = IF key = "K_r" THEN FALSE ELSE running
    /\ placed' = IF key = "K_r" THEN [i \in Pieces |-> FALSE] ELSE placed
    /\ filled' = IF key = "K_r" THEN [j \in Pieces |-> FALSE] ELSE filled
    /\ complete' = IF key = "K_r" THEN FALSE ELSE complete
    /\ UNCHANGED << shuffled_tray, rect, held_piece, drag_offset, win_timer,
                    ms_elapsed, pc >>

\* lines 311-313: KEYDOWN
KeyDown(key) ==
    /\ pc = "events"
    /\ running' = IF key = "K_r" THEN FALSE ELSE running
    /\ UNCHANGED << shuffled_tray, placed, rect, filled, held_piece,
                    drag_offset, complete, win_timer, ms_elapsed, pc >>

\* fault: the hit test of line 321 without "not piece.placed"
HitRanks_PlacedToo(p) ==
    { n \in 1 .. Len(shuffled_tray) : collidepoint(rect[shuffled_tray[n]], p) }

\* line 321: the ranks (positions in display order) of the unplaced pieces under p
HitRanks(p) ==
    { n \in 1 .. Len(shuffled_tray) :
        /\ ~placed[shuffled_tray[n]]
        /\ collidepoint(rect[shuffled_tray[n]], p) }

\* fault: shuffled_tray scanned front to back, without the [::-1] of line 320
MaxOf_Lowest(S) == CHOOSE n \in S : \A m \in S : n <= m

MaxOf(S) == CHOOSE n \in S : \A m \in S : m <= n

MinOf(S) == CHOOSE n \in S : \A m \in S : n <= m

\* fault: a pick-up without the resize of lines 323-324
MouseButtonDown_NoResize(p, button) ==
    /\ pc = "events"
    /\ IF button = 1 /\ ~complete /\ HitRanks(p) # {}
       THEN LET i == shuffled_tray[MaxOf(HitRanks(p))]
            IN  /\ UNCHANGED rect
                /\ held_piece' = i
                /\ drag_offset' = << p.x - rect[i].x, p.y - rect[i].y >>
       ELSE UNCHANGED << rect, held_piece, drag_offset >>
    /\ UNCHANGED << shuffled_tray, placed, filled, complete, win_timer, running, ms_elapsed, pc >>

\* lines 315-327: MOUSEBUTTONDOWN
MouseButtonDown(p, button) ==
    /\ pc = "events"
    /\ IF button = 1 /\ ~complete /\ HitRanks(p) # {}
       THEN LET i == shuffled_tray[MaxOf(HitRanks(p))]
            IN  /\ rect' = [rect EXCEPT ![i] = Rect(rect[i].x, rect[i].y, TILE_SIZE, TILE_SIZE)]
                /\ held_piece' = i
                /\ drag_offset' = << p.x - rect[i].x, p.y - rect[i].y >>
       ELSE UNCHANGED << rect, held_piece, drag_offset >>
    /\ UNCHANGED << shuffled_tray, placed, filled, complete, win_timer,
                    running, ms_elapsed, pc >>

\* fault: the held piece centred on the pointer, drag_offset ignored
MouseMotion_Centres(p) ==
    /\ pc = "events"
    /\ IF held_piece # None
       THEN rect' = [rect EXCEPT ![held_piece] =
                        Rect(p.x - TILE_SIZE \div 2, p.y - TILE_SIZE \div 2, @.w, @.h)]
       ELSE UNCHANGED rect
    /\ UNCHANGED << shuffled_tray, placed, filled, held_piece, drag_offset,
                    complete, win_timer, running, ms_elapsed, pc >>

\* lines 329-333: MOUSEMOTION
MouseMotion(p) ==
    /\ pc = "events"
    /\ IF held_piece # None
       THEN rect' = [rect EXCEPT ![held_piece] =
                        Rect(p.x - drag_offset[1], p.y - drag_offset[2], @.w, @.h)]
       ELSE UNCHANGED rect
    /\ UNCHANGED << shuffled_tray, placed, filled, held_piece, drag_offset,
                    complete, win_timer, running, ms_elapsed, pc >>

\* lines 338-339: the slots the drop loop would stop at
DropSlots(p) == { j \in Pieces : ~filled[j] /\ collidepoint(SlotRect(j), p) }

\* fault: the drop loop without the index test of line 340
SlotMatches_Any(j, k) == TRUE

\* line 340: slot.index == held_piece.index
SlotMatches(j, k) == j = k

\* fault: the win check of line 351 written with any() for all()
AllFilled_Any(fl) == \E j \in Pieces : fl[j]

\* line 351: all(s.filled for s in slots)
AllFilled(fl) == \A j \in Pieces : fl[j]

\* fault: the pointer-up handler without the guard of line 336
DropGuard_Missing == TRUE

\* line 336: if held_piece and not complete
DropGuard == held_piece # None /\ ~complete

\* fault: the win check done first, leaving the handler before line 348
HeldAfterDrop_KeptOnWin(fl) == IF AllFilled(fl) THEN held_piece ELSE None

\* line 348: held_piece = None, whatever the drop did to the slots
HeldAfterDrop(fl) == None

\* fault: the pointer-up handler calling layout_tray() only after a placement
MouseButtonUp_NoRelayoutOnMiss(p, button) ==
    /\ pc = "events"
    /\ IF button = 1 /\ DropGuard
       THEN LET j   == IF DropSlots(p) = {} THEN None ELSE MinOf(DropSlots(p))
                hit == j # None /\ SlotMatches(j, held_piece)
                fl  == IF hit THEN [filled EXCEPT ![j] = TRUE] ELSE filled
                pl  == IF hit THEN [placed EXCEPT ![held_piece] = TRUE] ELSE placed
                rc  == IF hit THEN [rect EXCEPT ![held_piece] = SlotRect(j)] ELSE rect
            IN  /\ held_piece' = HeldAfterDrop(fl)
                /\ filled' = fl
                /\ placed' = pl
                /\ rect' = IF hit THEN layout_tray(shuffled_tray, pl, rc) ELSE rc
                /\ IF AllFilled(fl)
                   THEN complete' = TRUE /\ win_timer' = 0
                   ELSE UNCHANGED << complete, win_timer >>
       ELSE UNCHANGED << filled, placed, held_piece, rect, complete, win_timer >>
    /\ UNCHANGED << shuffled_tray, drag_offset, running, ms_elapsed, pc >>

\* lines 335-353: MOUSEBUTTONUP.  The loop stops at the first unfilled slot
\* under p (slots are visited in index order) and places the held piece
\* there when the indices match.
MouseButtonUp(p, button) ==
    /\ pc = "events"
    /\ IF button = 1 /\ DropGuard
       THEN LET j   == IF DropSlots(p) = {} THEN None ELSE MinOf(DropSlots(p))
                hit == j # None /\ SlotMatches(j, held_piece)
                fl  == IF hit THEN [filled EXCEPT ![j] = TRUE] ELSE filled
                pl  == IF hit THEN [placed EXCEPT ![held_piece] = TRUE] ELSE placed
                rc  == IF hit THEN [rect EXCEPT ![held_piece] = SlotRect(j)] ELSE rect
            IN  /\ held_piece' = HeldAfterDrop(fl)
                /\ filled' = fl
                /\ placed' = pl
                /\ rect' = layout_tray(shuffled_tray, pl, rc)
                /\ IF AllFilled(fl)
                   THEN complete' = TRUE /\ win_timer' = 0
                   ELSE UNCHANGED << complete, win_timer >>
       ELSE UNCHANGED << filled, placed, held_piece, rect, complete, win_timer >>
    /\ UNCHANGED << shuffled_tray, drag_offset, running, ms_elapsed, pc >>

\* fault: line 356 without its "if complete"
EndFrame_AlwaysCounts ==
    /\ pc = "events"
    /\ win_timer + ms_elapsed <= MaxWinTimer
    /\ win_timer' = win_timer + ms_elapsed
    /\ pc' = IF running THEN "tick" ELSE "reset"
    /\ UNCHANGED << shuffled_tray, placed, rect, filled, held_piece,
                    drag_offset, complete, running, ms_elapsed >>

\* lines 355-359 and the loop test of line 301: the end of a frame
EndFrame ==
    /\ pc = "events"
    /\ complete => win_timer + ms_elapsed <= MaxWinTimer
    /\ win_timer' = IF complete THEN win_timer + ms_elapsed ELSE win_timer
    /\ pc' = IF running THEN "tick" ELSE "reset"
    /\ UNCHANGED << shuffled_tray, placed, rect, filled, held_piece,
                    drag_offset, complete, running, ms_elapsed >>

Next ==
    \/ Reset
    \/ Tick
    \/ \E key \in Keys : KeyDown(key)
    \/ \E p \in Points, button \in Buttons : MouseButtonDown(p, button)
    \/ \E p \in MovePoints : MouseMotion(p)
    \/ \E p \in Points, button \in Buttons : MouseButtonUp(p, button)
    \/ EndFrame

Spec == Init /\ [][Next]_vars


(* ============================= properties ============================== *)

\* the slots whose rectangle contains p (at most one: slots do not overlap)
SlotsAt(p) == { j \in Pieces : collidepoint(SlotRect(j), p) }

PlacedSet == { i \in Pieces : placed[i] }

FilledSet == { j \in Pieces : filled[j] }

(* ----------------------------------------------------------------------- *)
(* C1  Drop correctness.  A primary-button pointer-up at p while piece k   *)
(* is held clears the held reference; if p lies inside slot j then piece k *)
(* is placed and slot j filled afterwards iff j = k; a drop on slot k sets *)
(* exactly placed[k] and filled[k], and every other drop (another slot, a  *)
(* filled slot, no slot) changes no placed flag and no filled flag.        *)
(* ----------------------------------------------------------------------- *)
DropPost(p, k) ==
    /\ held_piece' = None
    /\ \A j \in SlotsAt(p) : (placed'[k] /\ filled'[j]) <=> (j = k)
    /\ IF k \in SlotsAt(p)
       THEN /\ placed' = [placed EXCEPT ![k] = TRUE]
            /\ filled' = [filled EXCEPT ![k] = TRUE]
       ELSE /\ placed' = placed
            /\ filled' = filled

C1_DropCorrectness ==
    [][ \A p \in Points :
          (held_piece # None /\ MouseButtonUp(p, 1)) => DropPost(p, held_piece) ]_vars

\* a drop on the matching slot has happened, and pieces are left to drop
C1_Witness ==
    /\ pc = "events"
    /\ held_piece = None
    /\ \E k \in Pieces : placed[k] /\ filled[k] /\ rect[k] = SlotRect(k)
    /\ \E i \in Pieces : ~placed[i]

(* ----------------------------------------------------------------------- *)
(* C2  In every reachable state slot i is filled iff piece i is placed.    *)
(* ----------------------------------------------------------------------- *)
C2_FilledIffPlaced == \A i \in Pieces : filled[i] <=> placed[i]

\* some pieces are placed and some are not
C2_Witness ==
    /\ Cardinality(PlacedSet) >= 3
    /\ Cardinality(FilledSet) >= 3
    /\ \E i \in Pieces : ~placed[i] /\ ~filled[i]

(* ----------------------------------------------------------------------- *)
(* C3  Between events, complete is true iff every slot is filled.          *)
(* ----------------------------------------------------------------------- *)
C3_CompleteIffAllFilled == complete <=> (\A j \in Pieces : filled[j])

\* the puzzle has been completed
C3_Witness == complete /\ FilledSet = Pieces /\ pc = "events"

(* ----------------------------------------------------------------------- *)
(* C4  At most one piece is held (held_piece is None or one piece index),  *)
(* and the held piece is never a placed piece.                             *)
(* ----------------------------------------------------------------------- *)
C4_HeldNotPlaced ==
    /\ held_piece \in Pieces \cup {None}
    /\ held_piece # None => ~placed[held_piece]

\* a piece is held while other pieces are already placed
C4_Witness == held_piece # None /\ Cardinality(PlacedSet) >= 2

(* ----------------------------------------------------------------------- *)
(* C5  Restart.  Once K_r has been pressed nothing but the reset ends the  *)
(* frame loop, and the reset, from whatever state it starts (mid-game, a   *)
(* piece held, puzzle complete), leaves: every slot unfilled, every piece  *)
(* unplaced, no piece held, complete false, win_timer 0, the display order *)
(* a permutation of all piece indices, every piece at the tray cell of its *)
(* rank in that order.                                                     *)
(* ----------------------------------------------------------------------- *)
IsPermutation(st) ==
    /\ Len(st) = NumPieces
    /\ \A i \in Pieces : \E n \in 1 .. Len(st) : st[n] = i

FreshGame ==
    /\ \A j \in Pieces : ~filled[j]
    /\ \A i \in Pieces : ~placed[i]
    /\ held_piece = None
    /\ ~complete
    /\ win_timer = 0
    /\ IsPermutation(shuffled_tray)
    /\ \A n \in 1 .. NumPieces : rect[shuffled_tray[n]] = TrayCell(n - 1)

C5_Restart ==
    [][ /\ (pc = "events" /\ ~running) => (~running' /\ pc' \in {"events", "reset"})
        /\ pc = "reset" => FreshGame' ]_vars

\* a new game that follows a game in which a piece had been picked up
C5_Witness == FreshGame /\ pc = "tick" /\ drag_offset # <<0, 0>>

(* ----------------------------------------------------------------------- *)
(* C6  Between two restarts placement is monotonic: no step other than the *)
(* reset turns a placed piece unplaced, a filled slot unfilled or complete *)
(* false.                                                                  *)
(* ----------------------------------------------------------------------- *)
C6_Monotonic ==
    [][ pc # "reset" =>
          /\ \A i \in Pieces : placed[i] => placed'[i]
          /\ \A j \in Pieces : filled[j] => filled'[j]
          /\ complete => complete' ]_vars

\* a restart is pending in a game with placed pieces
C6_Witness == pc = "events" /\ ~running /\ Cardinality(PlacedSet) >= 2

(* ----------------------------------------------------------------------- *)
(* The player of C7: with no restart, picks up an unplaced piece, may move *)
(* it, and releases it at a point inside its matching slot (PlaySpec).     *)
(* The frame loop never stops by itself (weak fairness of its steps) and   *)
(* the player keeps playing (strong fairness of pick-up and drop, which    *)
(* are enabled only while events are being handled).                       *)
(* ----------------------------------------------------------------------- *)
PlayPick ==
    /\ held_piece = None
    /\ \E p \in Points : HitRanks(p) # {} /\ ~complete /\ MouseButtonDown(p, 1)

PlayMove == held_piece # None /\ \E p \in MovePoints : MouseMotion(p)

PlayDrop == held_piece # None /\ MouseButtonUp(SlotCentre(held_piece), 1)

PlayFrame == running /\ EndFrame

PlayNext == Reset \/ Tick \/ PlayPick \/ PlayMove \/ PlayDrop \/ PlayFrame

PlaySpec ==
    /\ Init
    /\ [][PlayNext]_vars
    /\ WF_vars(Reset) /\ WF_vars(Tick) /\ WF_vars(PlayFrame)
    /\ SF_vars(PlayPick) /\ SF_vars(PlayDrop)

(* ----------------------------------------------------------------------- *)
(* C7  Under PlaySpec complete eventually becomes true; every drop places  *)
(* exactly one more piece, and complete becomes true at the step that      *)
(* places the COLS*ROWS-th piece and at no other, whatever the order.      *)
(* ----------------------------------------------------------------------- *)
C7_PlayCompletes ==
    /\ <>complete
    /\ [][ /\ (held_piece # None /\ held_piece' = None) =>
                 Cardinality(PlacedSet') = Cardinality(PlacedSet) + 1
           /\ (~complete /\ complete') <=>
                 /\ Cardinality(PlacedSet) = NumPieces - 1
                 /\ Cardinality(PlacedSet') = NumPieces ]_vars

\* every piece has been dropped on its slot and complete is set
C7_Witness ==
    /\ complete
    /\ Cardinality(PlacedSet) = NumPieces
    /\ \A i \in Pieces : rect[i] = SlotRect(i)

(* ----------------------------------------------------------------------- *)
(* C8  Within one game complete goes from false to true at most once, at   *)
(* the drop that fills the last slot, and that drop leaves win_timer at 0. *)
(* As stated (C8_AsStated): win_timer is still 0 at the end of the frame   *)
(* in which the last piece is placed.  As amended (C8_WinTimer): win_timer *)
(* is 0 until complete is set and accumulation starts in that same frame,  *)
(* whose end leaves win_timer equal to the frame's ms_elapsed.             *)
(* ----------------------------------------------------------------------- *)
\* the frame of the inner loop ends with this step
FrameEnds == pc = "events" /\ pc' # "events"

CompleteOnce ==
    /\ (~complete /\ complete') =>
          /\ pc = "events" /\ pc' = "events"
          /\ \E j \in Pieces : ~filled[j] /\ FilledSet' = Pieces
          /\ win_timer' = 0
    /\ (complete /\ ~complete') => pc = "reset"

C8_AsStated ==
    [][ /\ CompleteOnce
        /\ (FrameEnds /\ complete /\ win_timer = 0) => win_timer' = 0 ]_vars

C8_WinTimer ==
    [][ /\ CompleteOnce
        /\ ~complete' => win_timer' = 0
        /\ (FrameEnds /\ complete /\ win_timer = 0) =>
              (win_timer' = ms_elapsed /\ win_timer' > 0) ]_vars

\* the frame in which the last piece was placed has ended
C8_Witness == complete /\ pc = "tick" /\ win_timer = ms_elapsed

(* ----------------------------------------------------------------------- *)
(* C9  While complete is true no piece is held, and handling an event      *)
(* (pointer-down, pointer-move, pointer-up, key) changes nothing but the   *)
(* running flag: no pointer-down starts a drag.                            *)
(* ----------------------------------------------------------------------- *)
C9_CompleteIsInert ==
    /\ [](complete => held_piece = None)
    /\ [][ (complete /\ pc = "events" /\ pc' = "events") =>
             UNCHANGED << shuffled_tray, placed, rect, filled, held_piece,
                          drag_offset, complete, win_timer, ms_elapsed >> ]_vars

\* events are being handled in a frame after the completing one
C9_Witness == complete /\ pc = "events" /\ win_timer > 0 /\ held_piece = None

(* ----------------------------------------------------------------------- *)
(* C10  A pointer-up (any button) while no piece is held changes nothing:  *)
(* placed and filled flags, rectangles, display order, complete, win_timer *)
(* and the held reference stay as they are.                                *)
(* ----------------------------------------------------------------------- *)
C10_IdlePointerUp ==
    [][ held_piece = None =>
          \A p \in Points, button \in Buttons :
              MouseButtonUp(p, button) =>
                  UNCHANGED << placed, filled, rect, shuffled_tray, complete,
                               win_timer, held_piece, drag_offset >> ]_vars

\* no piece is held, mid-game, while events are handled
C10_Witness ==
    /\ pc = "events"
    /\ held_piece = None
    /\ PlacedSet # {}
    /\ \E i \in Pieces : ~placed[i]
    /\ drag_offset # <<0, 0>>

(* ------------------------------ rendering ------------------------------ *)
\* lines 247-249 and Slot.draw: slot j blits the image of piece j when filled
DrawnBySlot(i) == IF filled[i] THEN 1 ELSE 0

\* lines 252-255 and Piece.draw: the tray pass over shuffled_tray draws a
\* piece that is neither placed nor the held piece, once per occurrence
DrawnInTray(i) ==
    Cardinality({ n \in 1 .. Len(shuffled_tray) :
                    shuffled_tray[n] = i /\ ~placed[i] /\ i # held_piece })

\* lines 258-259 and Piece.draw: the held piece is drawn unless it is placed
DrawnAsHeld(i) == IF held_piece = i /\ ~placed[i] THEN 1 ELSE 0

\* draw(): how many times one frame renders piece i
DrawCount(i) == DrawnBySlot(i) + DrawnInTray(i) + DrawnAsHeld(i)

\* line 222: the tray panel
TrayPanel == Rect(TRAY_X, TRAY_Y, TRAY_W, TRAY_H)

\* line 35: the window
Window == Rect(0, 0, SCREEN_W, SCREEN_H)

(* ----------------------------------------------------------------------- *)
(* C11  The tray pieces (unplaced, not held), the placed pieces and the    *)
(* held piece partition the piece indices, and draw() renders every piece  *)
(* exactly once.                                                           *)
(* ----------------------------------------------------------------------- *)
TraySet == { i \in Pieces : ~placed[i] /\ i # held_piece }

HeldSet == { i \in Pieces : i = held_piece }

C11_Partition ==
    /\ TraySet \cup PlacedSet \cup HeldSet = Pieces
    /\ TraySet \cap PlacedSet = {}
    /\ TraySet \cap HeldSet = {}
    /\ PlacedSet \cap HeldSet = {}
    /\ \A i \in Pieces : DrawCount(i) = 1

\* all three groups are inhabited
C11_Witness ==
    /\ held_piece # None
    /\ Cardinality(PlacedSet) >= 2
    /\ Cardinality(TraySet) >= 2

(* ----------------------------------------------------------------------- *)
(* C12  After a relayout every unplaced piece's rectangle lies inside the  *)
(* tray panel, and so inside the window, whatever the number of unplaced   *)
(* pieces.  (With no piece held every unplaced piece stands where the last *)
(* relayout put it.)                                                       *)
(* ----------------------------------------------------------------------- *)
RectInside(r, outer) ==
    /\ outer.x <= r.x /\ r.x + r.w <= outer.x + outer.w
    /\ outer.y <= r.y /\ r.y + r.h <= outer.y + outer.h

C12_TrayHoldsLayout ==
    held_piece = None =>
        \A i \in Pieces : ~placed[i] =>
            RectInside(rect[i], TrayPanel) /\ RectInside(rect[i], Window)

(* ----------------------------------------------------------------------- *)
(* C13  Every unplaced piece other than the held one stands in the tray    *)
(* grid cell of its rank among the unplaced pieces in display order (the   *)
(* set of unplaced pieces does not change between two relayouts); two      *)
(* distinct tray pieces never overlap; only a restart changes the display  *)
(* order.                                                                  *)
(* ----------------------------------------------------------------------- *)
\* 0-based rank of unplaced piece i among the unplaced pieces, display order
UnplacedRank(i) ==
    LET u == Unplaced(shuffled_tray, placed)
    IN  (CHOOSE n \in 1 .. Len(u) : u[n] = i) - 1

Overlap(r, q) ==
    /\ r.x < q.x + q.w /\ q.x < r.x + r.w
    /\ r.y < q.y + q.h /\ q.y < r.y + r.h

TrayGrid ==
    /\ \A i \in TraySet : rect[i] = TrayCell(UnplacedRank(i))
    /\ \A i, k \in TraySet : i # k => ~Overlap(rect[i], rect[k])

C13_TrayGrid ==
    /\ []TrayGrid
    /\ [][shuffled_tray' # shuffled_tray => pc = "reset"]_vars

(* ----------------------------------------------------------------------- *)
(* C14  A pointer event outside the window fails every hit-test: a         *)
(* pointer-down there picks up no piece and a pointer-up there places no   *)
(* piece.                                                                  *)
(* ----------------------------------------------------------------------- *)
OutsidePoints == { p \in Points : ~collidepoint(Window, p) }

C14_OutsideMisses ==
    [][\A p \in OutsidePoints :
          /\ MouseButtonDown(p, 1) => UNCHANGED << held_piece, drag_offset, rect >>
          /\ MouseButtonUp(p, 1) => UNCHANGED << placed, filled >>]_vars

(* ----------------------------------------------------------------------- *)
(* C15  Relayout is idempotent: layout_tray() applied twice gives the same *)
(* rectangles as applied once, from any reachable state; and right after a *)
(* relayout (no piece held) one more relayout changes nothing.             *)
(* ----------------------------------------------------------------------- *)
C15_RelayoutIdempotent ==
    LET once == layout_tray(shuffled_tray, placed, rect)
    IN  /\ layout_tray(shuffled_tray, placed, once) = once
        /\ held_piece = None => once = rect

\* a relayout with work to do: a piece is held away from its cell, others
\* are placed
C15_Witness ==
    /\ held_piece # None
    /\ PlacedSet # {}
    /\ layout_tray(shuffled_tray, placed, rect) # rect

(* ----------------------------------------------------------------------- *)
(* C16  Pick-up followed by a failed drop is a round trip.  With no piece  *)
(* held the rectangles are a function of the display order and the placed  *)
(* flags (placed pieces on their slots, the others on the tray cells of    *)
(* their ranks); a pick-up, a pointer-move and a failed drop change        *)
(* neither the flags, the display order nor complete; and a failed drop    *)
(* puts every rectangle back where it was before the pick-up.              *)
(* ----------------------------------------------------------------------- *)
RestingRect(i) == IF placed[i] THEN SlotRect(i) ELSE TrayCell(UnplacedRank(i))

Resting == \A i \in Pieces : rect[i] = RestingRect(i)

C16_RoundTrip ==
    /\ [](held_piece = None => Resting)
    /\ [][(pc = "events" /\ pc' = "events" /\ held_piece' # None)
             => UNCHANGED << placed, filled, shuffled_tray, complete >>]_vars
    /\ [][(pc = "events" /\ pc' = "events" /\ held_piece # None
             /\ held_piece' = None /\ placed' = placed)
             => /\ UNCHANGED << filled, shuffled_tray, complete >>
                /\ rect' = [i \in Pieces |-> RestingRect(i)]]_vars

\* back at rest after a drag: the recorded offset tells that a piece was
\* picked up, some pieces are placed and some are not
C16_Witness ==
    /\ held_piece = None
    /\ drag_offset # <<0, 0>>
    /\ Resting
    /\ PlacedSet # {}
    /\ Cardinality(PlacedSet) < NumPieces
    /\ ~complete

(* ----------------------------------------------------------------------- *)
(* C17  A pointer-move at p while a piece is held moves that piece's       *)
(* rectangle origin to p - drag_offset, keeps its size and changes nothing *)
(* else; a pointer-move while no piece is held changes nothing.            *)
(* ----------------------------------------------------------------------- *)
C17_PointerMove ==
    [][\A p \in MovePoints : MouseMotion(p) =>
          /\ UNCHANGED << shuffled_tray, placed, filled, held_piece, drag_offset,
                          complete, win_timer, running, ms_elapsed, pc >>
          /\ \A i \in Pieces : i # held_piece => rect'[i] = rect[i]
          /\ held_piece # None =>
                /\ rect'[held_piece].x = p.x - drag_offset[1]
                /\ rect'[held_piece].y = p.y - drag_offset[2]
                /\ rect'[held_piece].w = rect[held_piece].w
                /\ rect'[held_piece].h = rect[held_piece].h]_vars

\* the held piece has followed the pointer to the middle of the board
C17_Witness ==
    /\ held_piece # None
    /\ rect[held_piece].x = SlotCentre(4).x - drag_offset[1]
    /\ rect[held_piece].y = SlotCentre(4).y - drag_offset[2]

(* ----------------------------------------------------------------------- *)
(* C18  A primary pointer-down at p while complete is false picks up a     *)
(* piece iff p lies inside the rectangle of some unplaced piece, and then  *)
(* the one latest in display order among the unplaced pieces containing p; *)
(* a placed piece is never picked up; a pointer-down that hits no unplaced *)
(* piece changes no state.  Stated for every such pointer-down, a piece    *)
(* held or not, which covers the claim's case of no piece held.            *)
(* ----------------------------------------------------------------------- *)
\* 1-based position of piece i in the display order
DisplayPos(i) == CHOOSE n \in 1 .. Len(shuffled_tray) : shuffled_tray[n] = i

UnplacedAt(p) == { i \in Pieces : ~placed[i] /\ collidepoint(rect[i], p) }

C18_PickUp ==
    [][\A p \in Points : (~complete /\ MouseButtonDown(p, 1)) =>
          IF UnplacedAt(p) = {}
          THEN UNCHANGED vars
          ELSE /\ held_piece' \in UnplacedAt(p)
               /\ \A i \in UnplacedAt(p) : DisplayPos(i) <= DisplayPos(held_piece')
               /\ UNCHANGED << shuffled_tray, placed, filled, complete, win_timer,
                               running, ms_elapsed, pc >>]_vars

\* a piece picked up at TrayPoint0 from a tray at rest, late in a game:
\* the slot centres tried on the way held placed pieces and picked up none
C18_Witness ==
    /\ held_piece # None
    /\ rect[held_piece] = Rect(TrayCell(0).x, TrayCell(0).y, TILE_SIZE, TILE_SIZE)
    /\ drag_offset = << TrayPoint0.x - TrayCell(0).x, TrayPoint0.y - TrayCell(0).y >>
    /\ Cardinality(PlacedSet) >= 3
    /\ \A i \in TraySet : rect[i] = TrayCell(UnplacedRank(i))

(* ----------------------------------------------------------------------- *)
(* C19  A primary pointer-down while a piece is already held leaves the    *)
(* held piece, drag_offset and every rectangle unchanged.                  *)
(* ----------------------------------------------------------------------- *)
C19_DownWhileHeld ==
    [][\A p \in Points : (held_piece # None /\ MouseButtonDown(p, 1)) =>
          UNCHANGED << held_piece, drag_offset, rect >>]_vars

(* ----------------------------------------------------------------------- *)
(* C20  A held piece has size TILE_SIZE x TILE_SIZE and both components of *)
(* drag_offset lie in [0, TILE_SIZE); the pointer position of the pick-up  *)
(* or of the last pointer-move, which is the rectangle origin plus         *)
(* drag_offset, lies inside the held piece's rectangle, and so does the    *)
(* point of every pointer-move right after it.                             *)
(* ----------------------------------------------------------------------- *)
HeldUnderPointer ==
    held_piece # None =>
        /\ rect[held_piece].w = TILE_SIZE /\ rect[held_piece].h = TILE_SIZE
        /\ 0 <= drag_offset[1] /\ drag_offset[1] < TILE_SIZE
        /\ 0 <= drag_offset[2] /\ drag_offset[2] < TILE_SIZE
        /\ collidepoint(rect[held_piece],
                        Pt(rect[held_piece].x + drag_offset[1],
                           rect[held_piece].y + drag_offset[2]))

C20_DragKeepsPointerInside ==
    /\ []HeldUnderPointer
    /\ [][\A p \in Points : (MouseButtonDown(p, 1) /\ ~complete /\ UnplacedAt(p) # {})
             => /\ drag_offset' = << p.x - rect[held_piece'].x, p.y - rect[held_piece'].y >>
                /\ collidepoint(rect'[held_piece'], p)]_vars
    /\ [][\A p \in MovePoints : (MouseMotion(p) /\ held_piece # None)
             => collidepoint(rect'[held_piece], p)]_vars

\* the piece picked up at TrayPoint1 has been dragged over the board
C20_Witness ==
    /\ held_piece # None
    /\ drag_offset = << TrayPoint1.x - TrayCell(1).x, TrayPoint1.y - TrayCell(1).y >>
    /\ collidepoint(rect[held_piece], SlotCentre(4))
    /\ PlacedSet # {}

=============================================================================
